---- MODULE Spec2Model ----
(***************************************************************************)
(* Model of the SnapCut expansion engine (keylistener.js) together with    *)
(* the parts of its environment it talks to: the uiohook key hook, the     *)
(* Node event loop (setImmediate, execFile callback, setTimeout), the      *)
(* clipboard and the usage report of the database module.                  *)
(*                                                                         *)
(* Strings are sequences of one-character strings, so that toLowerCase,    *)
(* endsWith, slice and length are computed and not assumed.                *)
(***************************************************************************)
EXTENDS Integers, Sequences, FiniteSets, TLC

VARIABLES
  buffer,        \* let buffer = ''
  snippetMap,    \* let snippetMap = {}     (function: lower-cased key -> snippet)
  shortcutList,  \* let shortcutList = []   (keys, longest first)
  uiohook,       \* let uiohook = null      (FALSE = null, TRUE = the uIOhook singleton)
  active,        \* let active = false
  expanding,     \* let expanding = false   (the Expansion Lock)
  popSoundPath,  \* let popSoundPath = null (FALSE = null, TRUE = path of the WAV file)
  handlers,      \* number of 'keydown' listeners registered on the uIOhook emitter
  hookRunning,   \* whether the native hook delivers key events (uiohook.start / stop)
  clipboard,     \* the operating-system clipboard
  immediates,    \* setImmediate callbacks queued and not yet run
  execs,         \* osascript child processes whose completion callback has not run
  timers,        \* setTimeout(..., 150) callbacks not yet run, in creation order
  uncaught,      \* an exception has propagated out of an engine callback
  matchLog,      \* history: ids of the snippets matched so far, in order
  usageLog,      \* history: ids passed to db.incrementUsage that returned normally
  done,          \* history: what the clipboard held when each expansion whose restore
                 \*          timer has run began
  installed,     \* history: the snippet list most recently handed to the index build
  swapped,       \* history: keys dropped by the latest index replacement while the
                 \*          buffer ended with a proper non-empty prefix of them
  typed,         \* history: key codes delivered to the hook (kept by the scenarios
                 \*          that name a log)
  db,            \* the database: the snippets table and the expansion_log table
  last           \* history: the operation that produced this state

vars == <<buffer, snippetMap, shortcutList, uiohook, active, expanding, popSoundPath,
          handlers, hookRunning, clipboard, immediates, execs, timers, uncaught,
          matchLog, usageLog, done, installed, swapped, typed, db, last>>

engineVars == <<buffer, snippetMap, shortcutList, uiohook, active, expanding, popSoundPath>>

----------------------------------------------------------------------------
(* Bounds of the model *)

MaxBuf == 3        \* Spec: printable keys are delivered while the buffer is shorter
MaxExp == 2        \* matches allowed in one behaviour
MaxExpLife == 1    \* SpecLife: matches allowed in one behaviour
MaxHandlers == 2   \* installations of the keydown listener in one behaviour
MaxTyped == 5      \* SpecDev: key events in one behaviour
MaxLen == 3        \* SpecPure: length of the buffers drawn
MaxBoundTyped == 4 \* SpecBound: key events in one behaviour
MaxSnips == 3      \* SpecIndex: length of the snippet lists drawn
MaxPad == 2        \* SpecCap, SpecTail: the key y is delivered while the buffer is shorter
MaxUsage == 3      \* SpecUsage: records in the expansion log

----------------------------------------------------------------------------
(* Strings *)

UpperChars == <<"A","B","C","D","E","F","G","H","I","J","K","L","M",
                "N","O","P","Q","R","S","T","U","V","W","X","Y","Z">>
LowerChars == <<"a","b","c","d","e","f","g","h","i","j","k","l","m",
                "n","o","p","q","r","s","t","u","v","w","x","y","z">>

toLowerChar(c) ==
  IF \E i \in 1..26 : UpperChars[i] = c
  THEN LowerChars[CHOOSE i \in 1..26 : UpperChars[i] = c]
  ELSE c

\* String.prototype.toLowerCase
toLowerCase(s) == [i \in 1..Len(s) |-> toLowerChar(s[i])]

\* String.prototype.endsWith
endsWith(s, k) ==
  /\ Len(k) <= Len(s)
  /\ SubSeq(s, Len(s) - Len(k) + 1, Len(s)) = k

\* s.slice(0, -1)
sliceDropLast(s) == IF Len(s) = 0 THEN s ELSE SubSeq(s, 1, Len(s) - 1)

\* s.slice(-n)
sliceLast(s, n) == IF Len(s) <= n THEN s ELSE SubSeq(s, Len(s) - n + 1, Len(s))

----------------------------------------------------------------------------
(* Program constants *)

KEYCODE_MAP ==
  (30 :> "a") @@ (48 :> "b") @@ (46 :> "c") @@ (32 :> "d") @@ (18 :> "e") @@
  (33 :> "f") @@ (34 :> "g") @@ (35 :> "h") @@ (23 :> "i") @@ (36 :> "j") @@
  (37 :> "k") @@ (38 :> "l") @@ (50 :> "m") @@ (49 :> "n") @@ (24 :> "o") @@
  (25 :> "p") @@ (16 :> "q") @@ (19 :> "r") @@ (31 :> "s") @@ (20 :> "t") @@
  (22 :> "u") @@ (47 :> "v") @@ (17 :> "w") @@ (45 :> "x") @@ (21 :> "y") @@
  (44 :> "z") @@
  (11 :> "0") @@ (2 :> "1") @@ (3 :> "2") @@ (4 :> "3") @@ (5 :> "4") @@
  (6 :> "5") @@ (7 :> "6") @@ (8 :> "7") @@ (9 :> "8") @@ (10 :> "9") @@
  (12 :> "-") @@ (13 :> "=") @@ (26 :> "[") @@ (27 :> "]") @@ (43 :> "\\") @@
  (39 :> ";") @@ (40 :> "'") @@ (51 :> ",") @@ (52 :> ".") @@ (53 :> "/")

BACKSPACE == 14

\* [57, 28, 15, 1]: space, enter, tab, escape
BoundaryCodes == {57, 28, 15, 1}

BUFFER_CAP == 50    \* if (buffer.length > 50)
BUFFER_KEEP == 30   \*   buffer = buffer.slice(-30)

----------------------------------------------------------------------------
(* Inputs *)

Snip(i, sc, b) == [id |-> i, shortcut |-> sc, body |-> b]

TextX == <<"X">>
BodyA == <<"h","i">>
BodyB == <<"b","y","e">>
BodyC == <<"y","o","!","!">>

\* Snippet lists handed to start / updateSnippets.  No shortcut is all digits, so
\* Object.keys lists the keys in insertion order.
ListD1 == << Snip(1, <<"d","1">>, BodyA), Snip(2, <<"d","1","2">>, BodyB) >>
ListUpper == << Snip(3, <<"D","1">>, BodyC) >>
ListD12 == << Snip(2, <<"d","1","2">>, BodyB) >>
ListDup == << Snip(1, <<"d","1">>, BodyA), Snip(3, <<"D","1">>, BodyC),
              Snip(4, <<"2","d">>, BodyB) >>
ListDev == << Snip(1, <<"d","e","v","1">>, BodyA),
              Snip(2, <<"d","e","v","1","2">>, BodyB) >>

ListSuffix == << Snip(5, <<"d">>, BodyA), Snip(6, <<"1","d">>, BodyB),
                 Snip(7, <<"D","2">>, BodyC) >>

\* n times the character x
XRun(n) == [i \in 1..n |-> "x"]

\* one snippet whose shortcut is as long as the buffer may get
ListLongKey == << Snip(8, XRun(BUFFER_CAP), BodyA) >>

SnippetLists == {ListD1, ListUpper, ListD12}

\* Key codes delivered by the hook: d, 1, 2, backspace, space, left shift
Codes == {32, 2, 3, BACKSPACE, 57, 42}
DevCodes == {32, 18, 47, 2, 3}
LongCodes == {45, BACKSPACE, 42}
CapCodes == {21, 45, 42}
TailCodes == {21, 45, BACKSPACE, 57, 42}

Image == [image |-> TRUE, text |-> <<>>]
Text(t) == [image |-> FALSE, text |-> t]


Empty == Text(<<>>)

----------------------------------------------------------------------------
(* Database: the snippets table, the expansion_log table, incrementUsage *)

\* the rows of the snippets table the scenarios start with: ids and shortcuts unique
Catalogue == {ListD1[1], ListD1[2], ListUpper[1], ListDup[3], ListSuffix[1],
              ListSuffix[2], ListSuffix[3], ListLongKey[1]}

\* a database whose snippets table holds snips, never used, and whose log is empty
NewDb(snips) ==
  [snippets |-> [i \in {sn.id : sn \in snips} |->
                   LET sn == CHOOSE r \in snips : r.id = i
                   IN [shortcut |-> sn.shortcut, body |-> sn.body, usage_count |-> 0]],
   expansion_log |-> <<>>]

\* faulty variant: the record is logged and the counter is left as it is
incrementUsageLogOnly(d, id) ==
  IF id \in DOMAIN d.snippets
  THEN [d EXCEPT !.expansion_log =
          Append(@, [snippet_id |-> id,
                     shortcut |-> d.snippets[id].shortcut,
                     chars_expanded |-> Len(d.snippets[id].body),
                     chars_shortcut |-> Len(d.snippets[id].shortcut)])]
  ELSE d

\* incrementUsage(id):
\*   UPDATE snippets SET usage_count = usage_count + 1 WHERE id = ?
\*   snippet = SELECT * FROM snippets WHERE id = ?
\*   if (snippet) INSERT INTO expansion_log (snippet_id, shortcut, chars_expanded,
\*                  chars_shortcut) VALUES (id, shortcut, body.length, shortcut.length)
incrementUsage(d, id) ==
  LET updated == IF id \in DOMAIN d.snippets
                 THEN [d EXCEPT !.snippets[id].usage_count = @ + 1]
                 ELSE d
  IN IF id \in DOMAIN updated.snippets
     THEN [updated EXCEPT !.expansion_log =
             Append(@, [snippet_id |-> id,
                        shortcut |-> updated.snippets[id].shortcut,
                        chars_expanded |-> Len(updated.snippets[id].body),
                        chars_shortcut |-> Len(updated.snippets[id].shortcut)])]
     ELSE updated

----------------------------------------------------------------------------
(* Shortcut Index: updateSnippets / the index build of startKeyListener *)

\* faulty variant: the shortcut is stored as written, without toLowerCase
indexKeyRaw(s) == s.shortcut

\* the key a snippet is stored under: s.shortcut.toLowerCase()
indexKey(s) == toLowerCase(s.shortcut)

\* faulty variant: the first snippet stored under key k is kept
FirstWithKey(snippets, k) ==
  snippets[CHOOSE i \in 1..Len(snippets) :
             /\ indexKey(snippets[i]) = k
             /\ \A j \in 1..(i-1) : indexKey(snippets[j]) # k]

\* the last snippet of the list stored under key k:
\*   for (const s of snippets) snippetMap[indexKey(s)] = s
LastWithKey(snippets, k) ==
  snippets[CHOOSE i \in 1..Len(snippets) :
             /\ indexKey(snippets[i]) = k
             /\ \A j \in (i+1)..Len(snippets) : indexKey(snippets[j]) # k]

buildSnippetMap(snippets) ==
  [k \in {indexKey(snippets[i]) : i \in 1..Len(snippets)} |-> LastWithKey(snippets, k)]

RECURSIVE ObjectKeys(_, _)
\* Object.keys(snippetMap): the keys in the order of their first insertion
ObjectKeys(snippets, acc) ==
  IF snippets = <<>> THEN acc
  ELSE LET k == indexKey(Head(snippets))
       IN ObjectKeys(Tail(snippets),
                     IF \E i \in 1..Len(acc) : acc[i] = k THEN acc ELSE Append(acc, k))

\* position of k in a list sorted longest first: behind every key at least as long
InsertLongestFirst(sorted, k) ==
  LET n == Cardinality({i \in 1..Len(sorted) : Len(sorted[i]) >= Len(k)})
  IN SubSeq(sorted, 1, n) \o <<k>> \o SubSeq(sorted, n + 1, Len(sorted))

RECURSIVE sortLongestFirst(_, _)
\* keys.sort((a, b) => b.length - a.length), a stable sort
sortLongestFirst(keys, acc) ==
  IF keys = <<>> THEN acc
  ELSE sortLongestFirst(Tail(keys), InsertLongestFirst(acc, Head(keys)))

\* faulty variant: the keys are left in insertion order, without the sort
buildShortcutListUnsorted(snippets) == ObjectKeys(snippets, <<>>)

buildShortcutList(snippets) == sortLongestFirst(ObjectKeys(snippets, <<>>), <<>>)

----------------------------------------------------------------------------
(* Match Detector *)

NoMatch == [found |-> FALSE]
Match(sn, n) == [found |-> TRUE, snippet |-> sn, matchLen |-> n]

RECURSIVE MatchFrom(_, _)
\* for (const key of shortcutList) if (lower.endsWith(key)) return {...}
MatchFrom(lower, i) ==
  IF i > Len(shortcutList) THEN NoMatch
  ELSE IF endsWith(lower, shortcutList[i])
       THEN Match(snippetMap[shortcutList[i]], Len(shortcutList[i]))
       ELSE MatchFrom(lower, i + 1)

\* checkBufferMatch, on the buffer value the handler has just computed
checkBufferMatch(buf) == MatchFrom(toLowerCase(buf), 1)

----------------------------------------------------------------------------
(* Input Buffer State Machine: the 'keydown' listener *)

Last(op, code, pre, fired, trunc) ==
  [op |-> op, code |-> code, pre |-> pre, fired |-> fired, trunc |-> trunc]

Task(n, m) == [id |-> n, deleteCount |-> m.matchLen, snippet |-> m.snippet]

\* faulty variant: a boundary key leaves the buffer as it is
boundaryBranchNoClear(st, code) == st

\* faulty variant: every unmapped key clears the buffer
boundaryBranchAnyKey(st, code) == [st EXCEPT !.buffer = <<>>]

\* faulty variant: the space key is kept in the buffer as a character
boundaryBranchSpaceChar(st, code) ==
  IF code = 57 THEN [st EXCEPT !.buffer = Append(@, " ")]
  ELSE IF code \in BoundaryCodes THEN [st EXCEPT !.buffer = <<>>] ELSE st

\* the unmapped-key branch: if ([57, 28, 15, 1].includes(e.keycode)) buffer = ''
boundaryBranch(st, code) ==
  IF code \in BoundaryCodes THEN [st EXCEPT !.buffer = <<>>] ELSE st

\* faulty variant: the lock and the buffer are left to the deferred task
matchBranchDeferred(st, m) ==
  [st EXCEPT !.immediates = Append(@, Task(Len(st.matchLog) + 1, m)),
             !.matchLog = Append(@, m.snippet.id),
             !.fired = TRUE]

\* faulty variant: the match leaves the buffer as it is
matchBranchKeepBuffer(st, m) ==
  [st EXCEPT !.expanding = TRUE,
             !.immediates = Append(@, Task(Len(st.matchLog) + 1, m)),
             !.matchLog = Append(@, m.snippet.id),
             !.fired = TRUE]

\* the match branch: expanding = true; setImmediate(...); buffer = ''
matchBranch(st, m) ==
  [st EXCEPT !.buffer = <<>>,
             !.expanding = TRUE,
             !.immediates = Append(@, Task(Len(st.matchLog) + 1, m)),
             !.matchLog = Append(@, m.snippet.id),
             !.fired = TRUE]

\* the branches of the listener behind the lock check
HandleUnlocked(st, code, cap) ==
  IF code = BACKSPACE THEN [st EXCEPT !.buffer = sliceDropLast(@)]
  ELSE IF code \notin DOMAIN KEYCODE_MAP THEN boundaryBranch(st, code)
  ELSE LET appended == Append(st.buffer, KEYCODE_MAP[code])
           over == Len(appended) > cap
           kept == IF over THEN sliceLast(appended, BUFFER_KEEP) ELSE appended
           m == checkBufferMatch(kept)
           st1 == [st EXCEPT !.buffer = kept, !.trunc = @ \/ over]
       IN IF m.found THEN matchBranch(st1, m) ELSE st1

\* faulty variant: the listener without "if (expanding) return"
keydownHandlerNoLock(st, code) == HandleUnlocked(st, code, BUFFER_CAP)

\* faulty variant: the listener without "if (buffer.length > 50) buffer = buffer.slice(-30)"
keydownHandlerNoTrunc(st, code) ==
  IF st.expanding THEN st ELSE HandleUnlocked(st, code, BUFFER_CAP + BUFFER_CAP)

\* One run of the listener on the handler-visible state st
keydownHandler(st, code) ==
  IF st.expanding THEN st ELSE HandleUnlocked(st, code, BUFFER_CAP)

RECURSIVE Emit(_, _, _)
\* EventEmitter.emit('keydown', e): every registered listener runs, in order
Emit(st, code, n) == IF n = 0 THEN st ELSE Emit(keydownHandler(st, code), code, n - 1)

\* The hook delivers one key-down event
KeyDown(code) ==
  /\ hookRunning
  /\ LET st == Emit([buffer |-> buffer, expanding |-> expanding,
                     immediates |-> immediates, matchLog |-> matchLog,
                     fired |-> FALSE, trunc |-> FALSE], code, handlers)
     IN /\ buffer' = st.buffer
        /\ expanding' = st.expanding
        /\ immediates' = st.immediates
        /\ matchLog' = st.matchLog
        /\ last' = Last("key", code, expanding, st.fired, st.trunc)
  /\ UNCHANGED <<snippetMap, shortcutList, uiohook, active, popSoundPath, handlers,
                 hookRunning, clipboard, execs, timers, uncaught, usageLog, done,
                 installed, swapped, db>>


----------------------------------------------------------------------------
(* Lifecycle / Update Surface *)

\* the proper non-empty prefixes of key k
ProperPrefixes(k) == {SubSeq(k, 1, n) : n \in 1..(Len(k) - 1)}

\* history: keys of the old index missing from the new one, of which the buffer
\* holds a proper prefix at its end
DroppedPartial(newMap, buf) ==
  {k \in (DOMAIN snippetMap) \ (DOMAIN newMap) :
     \E p \in ProperPrefixes(k) : endsWith(toLowerCase(buf), p)}

\* faulty variant: the index is left as it was
updateSnippetsIndexStale(snippets) == UNCHANGED <<snippetMap, shortcutList>>

\* updateSnippets(snippets): the two assignments to the index
updateSnippetsIndex(snippets) ==
  /\ snippetMap' = buildSnippetMap(snippets)
  /\ shortcutList' = buildShortcutList(snippets)

\* faulty variant: updateSnippets as a restart, clearing the buffer and the lock
updateSnippetsRestart(snippets) ==
  /\ immediates = <<>>
  /\ updateSnippetsIndex(snippets)
  /\ buffer' = <<>>
  /\ expanding' = FALSE
  /\ installed' = snippets
  /\ swapped' = {}
  /\ last' = Last("update", 0, active, FALSE, FALSE)
  /\ UNCHANGED <<uiohook, active, popSoundPath, handlers, hookRunning,
                 clipboard, immediates, execs, timers, uncaught, matchLog, usageLog,
                 done, db>>

\* faulty variant: updateSnippets returns at once while the engine is stopped
updateSnippetsWhenActive(snippets) ==
  /\ immediates = <<>>
  /\ IF active
     THEN /\ updateSnippetsIndex(snippets)
          /\ swapped' = DroppedPartial(buildSnippetMap(snippets), buffer)
     ELSE UNCHANGED <<snippetMap, shortcutList, swapped>>
  /\ installed' = snippets
  /\ last' = Last("update", 0, active, FALSE, FALSE)
  /\ UNCHANGED <<buffer, uiohook, active, expanding, popSoundPath, handlers, hookRunning,
                 clipboard, immediates, execs, timers, uncaught, matchLog, usageLog,
                 done, db>>

\* module.exports.updateSnippets
updateSnippets(snippets) ==
  /\ immediates = <<>>
  /\ updateSnippetsIndex(snippets)
  /\ installed' = snippets
  /\ swapped' = DroppedPartial(buildSnippetMap(snippets), buffer)
  /\ last' = Last("update", 0, active, FALSE, FALSE)
  /\ UNCHANGED <<buffer, uiohook, active, expanding, popSoundPath, handlers, hookRunning,
                 clipboard, immediates, execs, timers, uncaught, matchLog, usageLog,
                 done, db>>

\* faulty variant: start without "if (active) { updateSnippets(snippets); return }":
\* the buffer is cleared and the listener is registered once more
startWhileActiveRestart(snippets) ==
  /\ updateSnippetsIndex(snippets)
  /\ buffer' = <<>>
  /\ handlers' = handlers + 1
  /\ swapped' = {}
  /\ UNCHANGED <<uiohook, active, hookRunning>>

\* if (active) { updateSnippets(snippets); return }
startWhileActive(snippets) ==
  /\ updateSnippetsIndex(snippets)
  /\ swapped' = DroppedPartial(buildSnippetMap(snippets), buffer)
  /\ UNCHANGED <<buffer, uiohook, active, handlers, hookRunning>>

\* faulty variant: active = true is assigned before uiohook.start()
installHookActiveFirst(hook) ==
  CASE hook = "requireThrows" ->
         /\ ~uiohook
         /\ UNCHANGED <<uiohook, active, handlers, hookRunning>>
    [] hook = "startThrows" ->
         /\ uiohook' = TRUE
         /\ handlers' = handlers + 1
         /\ active' = TRUE
         /\ UNCHANGED hookRunning
    [] hook = "ok" ->
         /\ uiohook' = TRUE
         /\ handlers' = handlers + 1
         /\ hookRunning' = TRUE
         /\ active' = TRUE

\* try { require('uiohook-napi'); uiohook.on('keydown', ...); uiohook.start();
\*       active = true } catch (err) { console.error(...) }
\* require can throw only while the module has never been loaded.
installHook(hook) ==
  CASE hook = "requireThrows" ->
         /\ ~uiohook
         /\ UNCHANGED <<uiohook, active, handlers, hookRunning>>
    [] hook = "startThrows" ->
         /\ uiohook' = TRUE
         /\ handlers' = handlers + 1
         /\ UNCHANGED <<active, hookRunning>>
    [] hook = "ok" ->
         /\ uiohook' = TRUE
         /\ handlers' = handlers + 1
         /\ hookRunning' = TRUE
         /\ active' = TRUE

\* faulty variant: a start from the stopped state without "buffer = ''"
startFromStoppedKeepBuffer(snippets, hook) ==
  /\ snippetMap' = buildSnippetMap(snippets)
  /\ shortcutList' = buildShortcutList(snippets)
  /\ swapped' = {}
  /\ installHook(hook)
  /\ UNCHANGED buffer

\* the index build and the reset of lines 251-256, then the try block
startFromStopped(snippets, hook) ==
  /\ snippetMap' = buildSnippetMap(snippets)
  /\ shortcutList' = buildShortcutList(snippets)
  /\ buffer' = <<>>
  /\ swapped' = {}
  /\ installHook(hook)

\* startKeyListener(snippets).  popOk: generatePopSound could write the WAV file.
\* hook: "ok", "requireThrows" (require('uiohook-napi') throws) or "startThrows"
\* (uiohook.start() throws after the listener has been registered).
\* last.typedBefore, last.keysBefore: a start from the stopped state found a
\* non-empty buffer, and an index with a key that the supplied snippets do not have.
startKeyListener(snippets, popOk, hook) ==
  /\ immediates = <<>>
  /\ popSoundPath' = (popSoundPath \/ popOk)
  /\ installed' = snippets
  /\ last' = [op |-> "start", code |-> 0, pre |-> active, fired |-> FALSE,
              trunc |-> FALSE, hook |-> hook,
              typedBefore |-> ~active /\ buffer # <<>>,
              keysBefore |-> /\ ~active
                             /\ (DOMAIN snippetMap) \ (DOMAIN buildSnippetMap(snippets)) # {}]
  /\ IF active
     THEN /\ hook = "ok"
          /\ startWhileActive(snippets)
     ELSE startFromStopped(snippets, hook)
  /\ UNCHANGED <<expanding, clipboard, immediates, execs, timers, uncaught, matchLog,
                 usageLog, done, db>>

\* faulty variant: "if (uiohook)" without "&& active"
stopKeyListenerNoGuard(stopOk) ==
  /\ immediates = <<>>
  /\ last' = Last("stop", 0, active, FALSE, FALSE)
  /\ IF uiohook
     THEN /\ hookRunning' = (IF stopOk THEN FALSE ELSE hookRunning)
          /\ active' = FALSE
     ELSE /\ stopOk
          /\ UNCHANGED <<hookRunning, active>>
  /\ UNCHANGED <<buffer, snippetMap, shortcutList, uiohook, expanding, popSoundPath,
                 handlers, clipboard, immediates, execs, timers, uncaught, matchLog,
                 usageLog, done, installed, swapped, db>>

\* faulty variant: stop drops the running osascript and the pending restore timer
stopKeyListenerAbort(stopOk) ==
  /\ immediates = <<>>
  /\ last' = Last("stop", 0, active, FALSE, FALSE)
  /\ IF uiohook /\ active
     THEN /\ hookRunning' = (IF stopOk THEN FALSE ELSE hookRunning)
          /\ active' = FALSE
          /\ execs' = {}
          /\ timers' = <<>>
     ELSE /\ stopOk
          /\ UNCHANGED <<hookRunning, active, execs, timers>>
  /\ UNCHANGED <<buffer, snippetMap, shortcutList, uiohook, expanding, popSoundPath,
                 handlers, clipboard, immediates, uncaught, matchLog,
                 usageLog, done, installed, swapped, db>>

\* stopKeyListener().  stopOk: uiohook.stop() returned without throwing.
stopKeyListener(stopOk) ==
  /\ immediates = <<>>
  /\ last' = Last("stop", 0, active, FALSE, FALSE)
  /\ IF uiohook /\ active
     THEN /\ hookRunning' = (IF stopOk THEN FALSE ELSE hookRunning)
          /\ active' = FALSE
     ELSE /\ stopOk
          /\ UNCHANGED <<hookRunning, active>>
  /\ UNCHANGED <<buffer, snippetMap, shortcutList, uiohook, expanding, popSoundPath,
                 handlers, clipboard, immediates, execs, timers, uncaught, matchLog,
                 usageLog, done, installed, swapped, db>>

----------------------------------------------------------------------------
(* Expansion Executor *)

\* Scheduling.  A setImmediate callback runs in the check phase of the event-loop
\* iteration whose poll phase dispatched the key event, so it runs before any timer
\* and before any call of the lifecycle surface; further key events and child-process
\* callbacks of the same poll phase may run before it.  Timers of equal delay fire in
\* the order of their creation.

\* faulty variant: the text is read first, so an image on the clipboard is not captured
SnapshotTextFirst(readOk) ==
  IF ~readOk THEN [image |-> FALSE, hasText |-> FALSE, text |-> <<>>]
  ELSE [image |-> FALSE, hasText |-> TRUE, text |-> clipboard.text]

\* the snapshot of runExpansion: savedImage, else savedText, else neither
Snapshot(readOk) ==
  IF ~readOk THEN [image |-> FALSE, hasText |-> FALSE, text |-> <<>>]
  ELSE IF clipboard.image THEN [image |-> TRUE, hasText |-> FALSE, text |-> <<>>]
  ELSE [image |-> FALSE, hasText |-> TRUE, text |-> clipboard.text]

\* the restore of the setTimeout callback
Restored(saved) ==
  IF saved.image THEN Image
  ELSE IF saved.hasText THEN Text(saved.text)
  ELSE Empty

NotPasted == [happened |-> FALSE, clip |-> Empty]

\* The setImmediate callback of the listener: runExpansion(deleteCount, snippet.body),
\* then db.incrementUsage(snippet.id) inside try/catch.
\* readOk / writeOk / usageOk: clipboard read, clipboard.writeText(expandedText) and
\* the usage report return without throwing; a usage report that throws has changed
\* nothing.
runImmediate(readOk, writeOk, usageOk) ==
  /\ immediates # <<>>
  /\ LET t == Head(immediates) IN
       /\ immediates' = Tail(immediates)
       /\ IF writeOk
          THEN /\ clipboard' = Text(t.snippet.body)
               /\ execs' = execs \cup
                    {[id |-> t.id, deleteCount |-> t.deleteCount,
                      text |-> t.snippet.body, saved |-> Snapshot(readOk),
                      clip0 |-> clipboard, pasted |-> NotPasted]}
               /\ usageLog' = IF usageOk THEN Append(usageLog, t.snippet.id) ELSE usageLog
               /\ db' = IF usageOk THEN incrementUsage(db, t.snippet.id) ELSE db
               /\ UNCHANGED uncaught
          ELSE /\ uncaught' = TRUE
               /\ usageOk
               /\ UNCHANGED <<clipboard, execs, usageLog, db>>
  /\ last' = [op |-> "immediate", code |-> 0, pre |-> expanding, fired |-> FALSE,
              trunc |-> FALSE, read |-> readOk, write |-> writeOk]
  /\ UNCHANGED <<buffer, snippetMap, shortcutList, uiohook, active, expanding,
                 popSoundPath, handlers, hookRunning, timers, matchLog, done,
                 installed, swapped>>

\* osascript presses backspace deleteCount times and then Cmd-V: the focused
\* application reads the clipboard
execPaste(e) ==
  /\ e \in execs
  /\ ~e.pasted.happened
  /\ execs' = (execs \ {e}) \cup {[e EXCEPT !.pasted = [happened |-> TRUE, clip |-> clipboard]]}
  /\ last' = Last("paste", 0, expanding, FALSE, FALSE)
  /\ UNCHANGED <<buffer, snippetMap, shortcutList, uiohook, active, expanding,
                 popSoundPath, handlers, hookRunning, clipboard, immediates, timers,
                 uncaught, matchLog, usageLog, done, installed, swapped, db>>

\* the execFile callback (err) => { setTimeout(restore, 150); if (err) expanding = false }
execCallback(e, err) ==
  /\ e \in execs
  /\ err \/ e.pasted.happened
  /\ execs' = execs \ {e}
  /\ timers' = Append(timers, [id |-> e.id, saved |-> e.saved, clip0 |-> e.clip0,
                               text |-> e.text, pasted |-> e.pasted])
  /\ expanding' = (IF err THEN FALSE ELSE expanding)
  /\ last' = Last("callback", 0, expanding, FALSE, FALSE)
  /\ UNCHANGED <<buffer, snippetMap, shortcutList, uiohook, active, popSoundPath,
                 handlers, hookRunning, clipboard, immediates, uncaught, matchLog,
                 usageLog, done, installed, swapped, db>>

\* the setTimeout callback: restore the clipboard inside try/catch, expanding = false.
\* restoreOk: the clipboard write of the restore returned without throwing.
timerFire(restoreOk) ==
  /\ timers # <<>>
  /\ immediates = <<>>
  /\ LET t == Head(timers) IN
       /\ clipboard' = (IF restoreOk THEN Restored(t.saved) ELSE clipboard)
       /\ done' = done \cup {t.clip0}
  /\ timers' = Tail(timers)
  /\ expanding' = FALSE
  /\ last' = [op |-> "timer", code |-> 0, pre |-> expanding, fired |-> FALSE,
              trunc |-> FALSE, restore |-> restoreOk]
  /\ UNCHANGED <<buffer, snippetMap, shortcutList, uiohook, active, popSoundPath,
                 handlers, hookRunning, immediates, execs, uncaught, matchLog,
                 usageLog, installed, swapped, db>>

----------------------------------------------------------------------------
(* Specifications *)

Init ==
  /\ buffer = <<>>
  /\ snippetMap = << >>
  /\ shortcutList = <<>>
  /\ uiohook = FALSE
  /\ active = FALSE
  /\ expanding = FALSE
  /\ popSoundPath = FALSE
  /\ handlers = 0
  /\ hookRunning = FALSE
  /\ clipboard \in {Text(TextX), Image}
  /\ immediates = <<>>
  /\ execs = {}
  /\ timers = <<>>
  /\ uncaught = FALSE
  /\ matchLog = <<>>
  /\ usageLog = <<>>
  /\ done = {}
  /\ installed = <<>>
  /\ swapped = {}
  /\ typed = <<>>
  /\ db = NewDb(Catalogue)
  /\ last = Last("init", 0, FALSE, FALSE, FALSE)

\* Each action of a specification draws its inputs and outcomes from the sets it is
\* given; maxBuf and maxExp bound the buffer length and the matches of a behaviour.

Start(lists, pops, hooks) ==
  \E snippets \in lists, popOk \in pops, hook \in hooks :
    /\ active \/ hook = "requireThrows" \/ handlers < MaxHandlers
    /\ startKeyListener(snippets, popOk, hook)
    /\ UNCHANGED typed

Update(lists) == \E snippets \in lists : updateSnippets(snippets) /\ UNCHANGED typed

Stop(oks) == \E stopOk \in oks : stopKeyListener(stopOk) /\ UNCHANGED typed

Key(codes, maxBuf, maxExp) ==
  \E code \in codes :
    /\ Len(matchLog) < maxExp \/ expanding
    /\ code \in DOMAIN KEYCODE_MAP => Len(buffer) < maxBuf
    /\ KeyDown(code)
    /\ UNCHANGED typed

Immediate(reads, writes, usages) ==
  \E readOk \in reads, writeOk \in writes, usageOk \in usages :
    runImmediate(readOk, writeOk, usageOk) /\ UNCHANGED typed

Paste == \E e \in execs : execPaste(e) /\ UNCHANGED typed

Callback(errs) == \E e \in execs, err \in errs : execCallback(e, err) /\ UNCHANGED typed

Timer(restores) == \E restoreOk \in restores : timerFire(restoreOk) /\ UNCHANGED typed

HookOutcomes == {"ok", "requireThrows", "startThrows"}

\* The expansion pipeline: one successful start, then keys and expansions
NextPipe ==
  \/ Start({ListD1}, {TRUE}, {"ok"})
  \/ Key(Codes, MaxBuf, MaxExp)
  \/ Immediate(BOOLEAN, BOOLEAN, BOOLEAN)
  \/ Paste
  \/ Callback(BOOLEAN)
  \/ Timer(BOOLEAN)

SpecPipe == Init /\ [][NextPipe]_vars

\* The lifecycle surface: every outcome of the hook installation and of stop, index
\* replacement, keys, and expansions whose external calls succeed; the sound file
\* can be written (SpecIndex draws that outcome)
NextLife ==
  \/ Start(SnippetLists, {TRUE}, HookOutcomes)
  \/ Update(SnippetLists)
  \/ Stop(BOOLEAN)
  \/ Key(Codes, MaxBuf, MaxExpLife)
  \/ Immediate({TRUE}, {TRUE}, {TRUE})
  \/ Paste
  \/ Callback({FALSE})
  \/ Timer({TRUE})

SpecLife == Init /\ [][NextLife]_vars

\* The buffer cap: a single printable key, backspace and an unmapped key, with no
\* bound on the number of key events; the engine may be stopped and started again
KeyLong == \E code \in LongCodes : KeyDown(code) /\ UNCHANGED typed

NextLong ==
  \/ Start({ListD1}, {TRUE}, {"ok"})
  \/ Stop({TRUE})
  \/ KeyLong

SpecLong == Init /\ [][NextLong]_vars

\* The dev1 / dev12 scenario: the key events of the behaviour are recorded
KeyDev ==
  \E code \in DevCodes :
    /\ Len(typed) < MaxTyped
    /\ KeyDown(code)
    /\ typed' = Append(typed, code)

NextDev ==
  \/ (~active /\ Start({ListDev}, {TRUE}, {"ok"}))
  \/ KeyDev
  \/ Immediate({TRUE}, {TRUE}, {TRUE})
  \/ Paste
  \/ Callback(BOOLEAN)
  \/ Timer({TRUE})

\* the snippets table holds the two snippets of the scenario
InitDev ==
  /\ buffer = <<>>
  /\ snippetMap = << >>
  /\ shortcutList = <<>>
  /\ uiohook = FALSE
  /\ active = FALSE
  /\ expanding = FALSE
  /\ popSoundPath = FALSE
  /\ handlers = 0
  /\ hookRunning = FALSE
  /\ clipboard \in {Text(TextX), Image}
  /\ immediates = <<>>
  /\ execs = {}
  /\ timers = <<>>
  /\ uncaught = FALSE
  /\ matchLog = <<>>
  /\ usageLog = <<>>
  /\ done = {}
  /\ installed = <<>>
  /\ swapped = {}
  /\ typed = <<>>
  /\ db = NewDb({ListDev[1], ListDev[2]})
  /\ last = Last("init", 0, FALSE, FALSE, FALSE)

SpecDev == InitDev /\ [][NextDev]_vars

\* Boundary keys: d, 1, the four boundary keys and left shift, with the key events
\* of the behaviour recorded; the synthetic input may fail
BoundCodes == {32, 2, 57, 28, 15, 1, 42}

KeyBound ==
  \E code \in BoundCodes :
    /\ Len(typed) < MaxBoundTyped
    /\ KeyDown(code)
    /\ typed' = Append(typed, code)

NextBound ==
  \/ (~active /\ Start({ListD1}, {TRUE}, {"ok"}))
  \/ KeyBound
  \/ Immediate({TRUE}, {TRUE}, {TRUE})
  \/ Paste
  \/ Callback(BOOLEAN)
  \/ Timer({TRUE})

SpecBound == Init /\ [][NextBound]_vars

\* Stopping in mid-flight: starts, stops that may fail to stop the hook, keys, and
\* expansions with every outcome of their external calls.  The event loop runs every
\* queued setImmediate task and every due timer, and osascript terminates.
NextStop ==
  \/ Start({ListD1}, {TRUE}, {"ok"})
  \/ Stop(BOOLEAN)
  \/ Key(Codes, MaxBuf, MaxExpLife)
  \/ Immediate(BOOLEAN, BOOLEAN, BOOLEAN)
  \/ Paste
  \/ Callback(BOOLEAN)
  \/ Timer(BOOLEAN)

SpecStop ==
  /\ Init
  /\ [][NextStop]_vars
  /\ WF_vars(Immediate(BOOLEAN, BOOLEAN, BOOLEAN))
  /\ WF_vars(Callback(BOOLEAN))
  /\ WF_vars(Timer(BOOLEAN))

\* checkBufferMatch as a function of the buffer and the index: every buffer up to
\* MaxLen over PureChars, every index built from PureLists
PureChars == {"d", "D", "1", "2"}
PureLists == {<<>>, ListD1, ListUpper, ListDup, ListSuffix}
Strings(chars, n) == UNION {[1..k -> chars] : k \in 0..n}

InitPure ==
  /\ buffer \in Strings(PureChars, MaxLen)
  /\ \E snippets \in PureLists :
       /\ snippetMap = buildSnippetMap(snippets)
       /\ shortcutList = buildShortcutList(snippets)
       /\ installed = snippets
  /\ uiohook = FALSE
  /\ active = FALSE
  /\ expanding = FALSE
  /\ popSoundPath = FALSE
  /\ handlers = 0
  /\ hookRunning = FALSE
  /\ clipboard = Empty
  /\ immediates = <<>>
  /\ execs = {}
  /\ timers = <<>>
  /\ uncaught = FALSE
  /\ matchLog = <<>>
  /\ usageLog = <<>>
  /\ done = {}
  /\ swapped = {}
  /\ typed = <<>>
  /\ db = NewDb(Catalogue)
  /\ last = [op |-> "init"]

CheckMatch ==
  /\ last.op = "init"
  /\ last' = [op |-> "check", result |-> checkBufferMatch(buffer)]
  /\ UNCHANGED <<buffer, snippetMap, shortcutList, uiohook, active, expanding,
                 popSoundPath, handlers, hookRunning, clipboard, immediates, execs,
                 timers, uncaught, matchLog, usageLog, done, installed, swapped, typed, db>>

SpecPure == InitPure /\ [][CheckMatch]_vars

\* The clipboard round trip: as SpecPipe, with every clipboard call and every usage
\* report succeeding; the synthetic input may still fail
NextClip ==
  \/ Start({ListD1}, {TRUE}, {"ok"})
  \/ Key(Codes, MaxBuf, MaxExp)
  \/ Immediate({TRUE}, {TRUE}, {TRUE})
  \/ Paste
  \/ Callback(BOOLEAN)
  \/ Timer({TRUE})

SpecClip == Init /\ [][NextClip]_vars

\* The index build as a function of the snippet list: every list up to MaxSnips of
\* snippets with the shortcuts of PoolShortcuts (none all digits), built by
\* updateSnippets and by a start from the stopped state, whether or not the sound
\* file can be written
PoolShortcuts == << <<"d">>, <<"D">>, <<"d","1">>, <<"D","1">>, <<"1","d">>,
                    <<"d","1","2">> >>
Pool == {Snip(i, PoolShortcuts[i], BodyA) : i \in 1..Len(PoolShortcuts)}

InitIndex ==
  /\ installed \in Strings(Pool, MaxSnips)
  /\ buffer = <<>>
  /\ snippetMap = << >>
  /\ shortcutList = <<>>
  /\ uiohook = FALSE
  /\ active = FALSE
  /\ expanding = FALSE
  /\ popSoundPath = FALSE
  /\ handlers = 0
  /\ hookRunning = FALSE
  /\ clipboard \in {Text(TextX), Image}
  /\ immediates = <<>>
  /\ execs = {}
  /\ timers = <<>>
  /\ uncaught = FALSE
  /\ matchLog = <<>>
  /\ usageLog = <<>>
  /\ done = {}
  /\ swapped = {}
  /\ typed = <<>>
  /\ db = NewDb(Pool)
  /\ last = Last("init", 0, FALSE, FALSE, FALSE)

BuildByUpdate == last.op = "init" /\ Update({installed})

BuildByStart == last.op = "init" /\ Start({installed}, BOOLEAN, {"ok"})

NextIndex == BuildByUpdate \/ BuildByStart

SpecIndex == InitIndex /\ [][NextIndex]_vars

\* The expansion write: as SpecClip, and clipboard.writeText(expandedText) may throw;
\* every other clipboard call and every usage report succeeds
NextWrite ==
  \/ Start({ListD1}, {TRUE}, {"ok"})
  \/ Key(Codes, MaxBuf, MaxExp)
  \/ Immediate({TRUE}, BOOLEAN, {TRUE})
  \/ Paste
  \/ Callback(BOOLEAN)
  \/ Timer({TRUE})

SpecWrite == Init /\ [][NextWrite]_vars

\* A shortcut as long as the buffer may get, typed behind other characters: the keys
\* y, x and left shift, with BUFFER_CAP times x registered; y is delivered while the
\* buffer holds nothing but fewer than MaxPad times y.  The log holds the printable
\* keys handled with the lock free since the buffer was last empty and since the
\* last other key.
KeyCap ==
  \E code \in CapCodes :
    /\ Len(matchLog) < MaxExpLife \/ expanding
    /\ code = 21 => /\ Len(buffer) < MaxPad
                    /\ \A i \in 1..Len(buffer) : buffer[i] = "y"
    /\ KeyDown(code)
    /\ typed' = IF expanding THEN typed
                ELSE IF code \notin DOMAIN KEYCODE_MAP THEN <<>>
                ELSE Append(IF buffer = <<>> THEN <<>> ELSE typed, code)

NextCap ==
  \/ (~active /\ Start({ListLongKey}, {TRUE}, {"ok"}))
  \/ KeyCap
  \/ Immediate({TRUE}, {TRUE}, {TRUE})
  \/ Paste
  \/ Callback(BOOLEAN)
  \/ Timer({TRUE})

SpecCap == Init /\ [][NextCap]_vars

\* The tail of a long buffer: as SpecCap with backspace and space, without the log,
\* and the engine may be stopped and started again
KeyTail ==
  \E code \in TailCodes :
    /\ Len(matchLog) < MaxExpLife \/ expanding
    /\ code = 21 => /\ Len(buffer) < MaxPad
                    /\ \A i \in 1..Len(buffer) : buffer[i] = "y"
    /\ KeyDown(code)
    /\ UNCHANGED typed

NextTail ==
  \/ Start({ListLongKey}, {TRUE}, {"ok"})
  \/ Stop({TRUE})
  \/ KeyTail
  \/ Immediate({TRUE}, {TRUE}, {TRUE})
  \/ Paste
  \/ Callback(BOOLEAN)
  \/ Timer({TRUE})

SpecTail == Init /\ [][NextTail]_vars

\* The usage report on its own: incrementUsage called with the ids 1 to 4 on every
\* snippets table made of rows of UsageRows (none of which has id 4), until the log
\* holds MaxUsage records
UsageRows == {ListD1[1], ListD1[2], ListUpper[1]}
UsageIds == 1..4

InitUsage ==
  /\ db \in {NewDb(rows) : rows \in SUBSET UsageRows}
  /\ buffer = <<>>
  /\ snippetMap = << >>
  /\ shortcutList = <<>>
  /\ uiohook = FALSE
  /\ active = FALSE
  /\ expanding = FALSE
  /\ popSoundPath = FALSE
  /\ handlers = 0
  /\ hookRunning = FALSE
  /\ clipboard = Empty
  /\ immediates = <<>>
  /\ execs = {}
  /\ timers = <<>>
  /\ uncaught = FALSE
  /\ matchLog = <<>>
  /\ usageLog = <<>>
  /\ done = {}
  /\ installed = <<>>
  /\ swapped = {}
  /\ typed = <<>>
  /\ last = [op |-> "init"]

Usage ==
  \E id \in UsageIds :
    /\ Len(db.expansion_log) < MaxUsage
    /\ db' = incrementUsage(db, id)
    /\ last' = [op |-> "usage", id |-> id]
    /\ UNCHANGED <<buffer, snippetMap, shortcutList, uiohook, active, expanding,
                   popSoundPath, handlers, hookRunning, clipboard, immediates, execs,
                   timers, uncaught, matchLog, usageLog, done, installed, swapped, typed>>

SpecUsage == InitUsage /\ [][Usage]_vars

----------------------------------------------------------------------------
(* Properties *)

Range(f) == {f[i] : i \in DOMAIN f}

\* the lower-cased shortcuts of the snippet list handed to the latest index build
Registered == {toLowerCase(installed[i].shortcut) : i \in 1..Len(installed)}

\* the registered keys that are suffixes of the lower-cased buffer buf
SuffixKeys(buf) == {k \in Registered : endsWith(toLowerCase(buf), k)}

\* expansions matched whose completion callback or restore timer has not yet run
InFlight == Len(immediates) + Cardinality(execs) + Len(timers)

Printable(code) == code \in DOMAIN KEYCODE_MAP

\* C1: once a match has set the Expansion Lock, the lock is eventually set back to
\* false whatever the outcome of the expansion's external calls.  Stated on finite
\* runs: while the lock is held, a step of the engine that releases it is still to
\* come (a queued setImmediate task, a running osascript or a pending restore timer).
C1_LockReleaseComing == expanding => InFlight > 0

\* C2: a key event delivered while the Expansion Lock is true leaves the buffer
\* unchanged and starts no expansion.
C2_LockedKeysIgnored ==
  [][(expanding /\ last'.op = "key") =>
       /\ buffer' = buffer
       /\ immediates' = immediates
       /\ matchLog' = matchLog
       /\ expanding']_vars

\* a printable key event has been delivered while the lock was held
C2_Witness == last.op = "key" /\ last.pre /\ Printable(last.code)

\* C3: at most one expansion is in flight at any time.
C3_OneInFlight == InFlight <= 1

\* C4: checkBufferMatch returns the longest registered key that is a suffix of the
\* lower-cased buffer, with that key's length, and no match exactly when no
\* registered key is such a suffix.
C4_LongestSuffix ==
  last.op = "check" =>
    LET r == last.result
        S == SuffixKeys(buffer)
    IN /\ r.found <=> S # {}
       /\ r.found =>
            \E k \in S : /\ \A j \in S : Len(j) <= Len(k)
                         /\ r.matchLen = Len(k)
                         /\ toLowerCase(r.snippet.shortcut) = k

\* checkBufferMatch has been applied to a buffer of which two registered keys are
\* suffixes
C4_Witness ==
  /\ last.op = "check"
  /\ last.result.found
  /\ Cardinality(SuffixKeys(buffer)) >= 2

\* C5: with dev1 and dev12 registered, typing d, e, v, 1, 2 expands the snippet of
\* dev12 and not the snippet of dev1.
C5_Dev12Wins ==
  (installed = ListDev /\ typed = <<32, 18, 47, 2, 3>>) =>
    (2 \in Range(matchLog) /\ 1 \notin Range(matchLog))

\* C6: every index key is the lower-cased form of a stored shortcut, and a printable
\* key event that makes the lower-cased buffer end with the lower-cased shortcut of a
\* registered snippet starts the expansion of a snippet whose lower-cased shortcut
\* ends the buffer.
C6_CaseInsensitive ==
  [][/\ DOMAIN snippetMap = Registered
     /\ (/\ last'.op = "key"
         /\ ~expanding
         /\ Printable(last'.code)
         /\ SuffixKeys(Append(buffer, KEYCODE_MAP[last'.code])) # {})
        => /\ Len(matchLog') = Len(matchLog) + 1
           /\ expanding'
           /\ toLowerCase(immediates'[Len(immediates')].snippet.shortcut)
                \in SuffixKeys(Append(buffer, KEYCODE_MAP[last'.code]))]_vars

\* the snippet stored with the upper-case shortcut "D1" has been matched
C6_Witness ==
  /\ immediates # <<>>
  /\ Head(immediates).snippet.shortcut = <<"D", "1">>
  /\ last.op = "key"

\* C7: the buffer is never longer than the cap.
C7_BufferCapped == Len(buffer) <= BUFFER_CAP

\* a key event has cut the buffer
C7_Witness == last.op = "key" /\ last.trunc

\* C8: once no expansion is in flight and the lock is free, the clipboard holds what
\* it held when each completed expansion began, if that was text.
C8_ClipboardRestored ==
  (~expanding /\ InFlight = 0) => \A c \in done : ~c.image => clipboard = c

\* C9: a key event never starts the expansion of a shortcut that is not in the
\* snippet list installed last.
C9_NoStaleMatch ==
  [][Len(immediates') > Len(immediates) =>
       toLowerCase(immediates'[Len(immediates')].snippet.shortcut) \in Registered]_vars

\* a key event has completed, without a match, a shortcut that the latest index
\* replacement dropped while the buffer held a proper prefix of it
C9_Witness ==
  /\ last.op = "key"
  /\ ~last.fired
  /\ \E k \in swapped : k \notin Registered /\ endsWith(toLowerCase(buffer), k)

\* C10: stopKeyListener called while the engine is stopped leaves it stopped and
\* changes nothing else.
C10_StopIdempotent ==
  [][(last'.op = "stop" /\ ~active) =>
       /\ ~active'
       /\ UNCHANGED <<buffer, snippetMap, shortcutList, uiohook, expanding,
                      popSoundPath, handlers, hookRunning, clipboard, immediates,
                      execs, timers, uncaught>>]_vars

\* stopKeyListener has been called after a start while the engine was stopped
C10_Witness == last.op = "stop" /\ ~last.pre /\ uiohook

RECURSIVE SinceBoundary(_)
\* the number of printable key codes of log behind its last boundary code
SinceBoundary(log) ==
  IF log = <<>> THEN 0
  ELSE LET c == log[Len(log)]
       IN IF c \in BoundaryCodes THEN 0
          ELSE SinceBoundary(SubSeq(log, 1, Len(log) - 1)) + (IF Printable(c) THEN 1 ELSE 0)

C12_StartWhileActive ==
  [][(last'.op = "start" /\ active) =>
       /\ snippetMap' = buildSnippetMap(installed')
       /\ shortcutList' = buildShortcutList(installed')
       /\ UNCHANGED <<buffer, expanding, active, handlers, hookRunning, uiohook,
                      immediates, execs, timers, clipboard, matchLog, uncaught>>]_vars

\* startKeyListener has been called while the engine was active and an expansion was
\* in flight
C12_Witness == last.op = "start" /\ last.pre /\ expanding /\ InFlight > 0

\* the snippet with identifier id among the snippet lists of the lifecycle scenario
SnippetOf(id) == CHOOSE sn \in UNION {Range(l) : l \in SnippetLists} : sn.id = id

\* every expansion whose osascript is running or whose restore timer is pending
\* deletes the length of the shortcut it matched and carries, and has pasted if it
\* has pasted, the body of the snippet it matched
InFlightAsMatched ==
  /\ \A e \in execs : e.deleteCount = Len(SnippetOf(matchLog[e.id]).shortcut)
  /\ \A e \in execs \cup Range(timers) :
       LET sn == SnippetOf(matchLog[e.id])
       IN /\ e.text = sn.body
          /\ e.pasted.happened => e.pasted.clip = Text(sn.body)

\* C13: updateSnippets replaces the index by the one built from its argument and
\* leaves the buffer and the lock unchanged, and an expansion in flight keeps the
\* delete count and the body of the snippet it matched, whatever index is installed.
C13_UpdateKeepsInFlight ==
  [][/\ last'.op = "update" =>
          /\ snippetMap' = buildSnippetMap(installed')
          /\ shortcutList' = buildShortcutList(installed')
          /\ UNCHANGED <<buffer, expanding, immediates, execs, timers, clipboard>>
     /\ InFlightAsMatched']_vars

\* updateSnippets has been called while an osascript that has not yet pasted was
\* running for a shortcut that the new index does not hold
C13_Witness ==
  /\ last.op = "update"
  /\ expanding
  /\ \E e \in execs :
       /\ ~e.pasted.happened
       /\ toLowerCase(SnippetOf(matchLog[e.id]).shortcut) \notin Registered

\* C14: updateSnippets called while the engine is stopped leaves the snippet map and
\* the ordered key list as they were.
C14_UpdateStoppedNoOp ==
  [][(last'.op = "update" /\ ~active) => UNCHANGED <<snippetMap, shortcutList>>]_vars

\* C14 as amended: updateSnippets called while the engine is stopped replaces the
\* snippet map and the ordered key list by those built from its argument, as it does
\* while the engine is active, and changes nothing else of the engine.
C14_UpdateStoppedReplaces ==
  [][(last'.op = "update" /\ ~active) =>
       /\ snippetMap' = buildSnippetMap(installed')
       /\ shortcutList' = buildShortcutList(installed')
       /\ UNCHANGED <<buffer, expanding, active, uiohook, handlers, hookRunning,
                      immediates, execs, timers, clipboard>>]_vars

\* updateSnippets has been called while the engine was stopped after a start, and
\* has dropped a key of the index of which the buffer held a prefix
C14_Witness == last.op = "update" /\ ~last.pre /\ uiohook /\ swapped # {}

\* C15: after stopKeyListener has returned from the active state no keydown listener
\* of the engine is registered on the hook, and at most one is registered at any time.
C15_HandlerUnregistered ==
  /\ (last.op = "stop" /\ last.pre) => handlers = 0
  /\ handlers <= 1

\* the expansions whose osascript is running or whose restore timer is pending
InFlightIds == {e.id : e \in execs \cup Range(timers)}

\* C16: stopKeyListener leaves the running osascript, the pending restore timer, the
\* lock and the clipboard as they are, and every expansion in flight when it is
\* called has its restore timer run later, which leaves the lock free.
C16_StopLeavesExpansion ==
  /\ [][last'.op = "stop" =>
          UNCHANGED <<immediates, execs, timers, expanding, clipboard>>]_vars
  /\ \A n \in 1..(MaxExpLife + 1) :
       (last.op = "stop" /\ n \in InFlightIds) ~> (n \notin InFlightIds /\ ~expanding)

\* stopKeyListener has been called on the active engine while the lock was held and
\* an osascript was running
C16_Witness == last.op = "stop" /\ last.pre /\ expanding /\ execs # {}

\* C17: no failure of an external call of an expansion leaves the engine as an
\* uncaught exception.
C17_NoUncaught == ~uncaught

\* C18: a start from the stopped state in which the hook cannot be loaded or started
\* raises no exception and leaves the engine stopped, and a start from the stopped
\* state in which the hook loads and starts makes the engine active, whatever starts
\* have failed before.
C18_FailedStartStaysStopped ==
  [][(last'.op = "start" /\ ~active) =>
       IF last'.hook = "ok"
       THEN active' /\ hookRunning' /\ uiohook' /\ handlers' = handlers + 1
       ELSE /\ ~active'
            /\ UNCHANGED <<hookRunning, uncaught, expanding, immediates, execs, timers>>]_vars

\* a start has failed because uiohook.start() threw, after an earlier start had
\* registered a listener
C18_Witness ==
  /\ last.op = "start"
  /\ last.hook = "startThrows"
  /\ ~active
  /\ handlers = 2

\* C19: a key event that matches leaves the lock held and the buffer empty, with the
\* task of the expansion queued and nothing of the expansion run yet: no osascript,
\* no timer, no clipboard write, no usage report.
C19_LockedBeforeAsync ==
  [][(last'.op = "key" /\ last'.fired) =>
       /\ expanding'
       /\ buffer' = <<>>
       /\ Len(immediates') = Len(immediates) + 1
       /\ UNCHANGED <<execs, timers, clipboard, usageLog>>]_vars

\* a key event has matched while two listeners were registered
C19_Witness ==
  /\ last.op = "key"
  /\ last.fired
  /\ immediates # <<>>
  /\ handlers = 2

\* C20: while the expansion matched last has not had its clipboard restore run, the
\* lock is held.
C20_LockHeldUntilRestore == (Len(matchLog) \in InFlightIds) => expanding

\* the expansion whose completion callback or restore timer runs in this step
ReleaserId ==
  IF last'.op = "timer" THEN Head(timers).id
  ELSE (CHOOSE e \in execs \ execs' : TRUE).id

\* C21: the lock is still held when the restore timer of an expansion runs, so that
\* each expansion releases it once, and a step that releases the lock belongs to the
\* expansion matched last, the one that set it.
C21_LockClearedByOwner ==
  [][/\ last'.op = "timer" => expanding
     /\ (expanding /\ ~expanding') => ReleaserId = Len(matchLog)]_vars

\* C22: the deferred task of a match starts exactly one osascript, whose backspace
\* count is the length of the lower-cased shortcut of the matched snippet and whose
\* text, written to the clipboard for the paste, is the body of that snippet.
C22_OneSyntheticRequest ==
  [][last'.op = "immediate" =>
       LET t == Head(immediates)
       IN /\ Cardinality(execs' \ execs) = 1
          /\ \A e \in execs' \ execs :
               /\ e.id = t.id
               /\ e.deleteCount = Len(toLowerCase(t.snippet.shortcut))
               /\ e.text = t.snippet.body
          /\ clipboard' = Text(t.snippet.body)
          /\ t.snippet.id = matchLog[t.id]]_vars

\* C23: every usage report issued belongs to an expansion that is no longer in flight.
C23_UsageAfterSuccess == Len(usageLog) + InFlight <= Len(matchLog)

C25_BackspaceDropsOne ==
  [][(last'.op = "key" /\ last'.code = BACKSPACE /\ ~expanding) =>
       /\ buffer' = IF buffer = <<>> THEN <<>> ELSE SubSeq(buffer, 1, Len(buffer) - 1)
       /\ ~last'.fired
       /\ UNCHANGED <<expanding, immediates, matchLog>>]_vars

\* C26: a key event whose code is not backspace, not in the key-code table and not a
\* boundary code leaves the buffer, the lock and the index unchanged and starts
\* nothing.
C26_UnmappedNoOp ==
  [][(/\ last'.op = "key"
      /\ last'.code # BACKSPACE
      /\ ~Printable(last'.code)
      /\ last'.code \notin BoundaryCodes) =>
       UNCHANGED <<buffer, expanding, snippetMap, shortcutList, immediates, matchLog>>]_vars

\* an unmapped key that is no boundary key has been delivered with the lock free
\* while the buffer held a character
C26_Witness ==
  /\ last.op = "key"
  /\ last.code = 42
  /\ ~last.pre
  /\ buffer # <<>>

C28_IndexBuilt ==
  last.op \in {"update", "start"} =>
    /\ Range(shortcutList) = Registered
    /\ Len(shortcutList) = Cardinality(Registered)
    /\ \A i, j \in 1..Len(shortcutList) :
         i < j => Len(shortcutList[i]) >= Len(shortcutList[j])
    /\ DOMAIN snippetMap = Range(shortcutList)
    /\ \A k \in DOMAIN snippetMap :
         \E i \in 1..Len(installed) :
           /\ snippetMap[k] = installed[i]
           /\ toLowerCase(installed[i].shortcut) = k
           /\ \A j \in (i+1)..Len(installed) : toLowerCase(installed[j].shortcut) # k

\* an index has been built from a list in which two snippets share a lower-cased
\* shortcut and a longer shortcut follows a shorter one
C28_Witness ==
  /\ last.op = "update"
  /\ Len(installed) = 3
  /\ Cardinality(Registered) = 2
  /\ installed[1].shortcut = <<"d">>
  /\ installed[2].shortcut = <<"D", "1">>
  /\ installed[3].shortcut = <<"d", "1">>

\* C29: a start from the stopped state, whether or not the hook can be installed,
\* leaves the buffer empty and the index built from the supplied snippets alone,
\* whatever the buffer and the index held before.
C29_StartResets ==
  [][(last'.op = "start" /\ ~active) =>
       /\ buffer' = <<>>
       /\ snippetMap' = buildSnippetMap(installed')
       /\ shortcutList' = buildShortcutList(installed')
       /\ DOMAIN snippetMap' = Registered'
       /\ Range(shortcutList') = Registered']_vars

\* the engine has been started from the stopped state while the buffer held
\* characters and the index held a key that the supplied snippets do not have
C29_Witness ==
  /\ last.op = "start"
  /\ ~last.pre
  /\ last.hook = "ok"
  /\ last.typedBefore
  /\ last.keysBefore

\* C30: the usage reports issued are, in order, the ids of the snippets of the
\* matches whose deferred task has run: one report for each, and no other report.
C30_OneReportPerMatch ==
  usageLog = SubSeq(matchLog, 1, Len(matchLog) - Len(immediates))

\* the state a key event leaves when one listener handles it
OneListener(code) ==
  keydownHandler([buffer |-> buffer, expanding |-> expanding,
                  immediates |-> immediates, matchLog |-> matchLog,
                  fired |-> FALSE, trunc |-> FALSE], code)

\* C31: whatever starts and stops came before, a key event is handled as after a
\* first start, by one listener: a printable key adds its one character to the
\* buffer once, and the buffer, the lock and the queued tasks are those that one run
\* of the listener leaves.
C31_RestartAsFirstStart ==
  [][last'.op = "key" =>
       /\ buffer' = OneListener(last'.code).buffer
       /\ expanding' = OneListener(last'.code).expanding
       /\ immediates' = OneListener(last'.code).immediates]_vars

\* C32: from the clipboard write of an expansion to its synthetic paste the clipboard
\* holds the body of the matched snippet, and the paste reads that body.
C32_PasteReadsBody ==
  /\ \A e \in execs : ~e.pasted.happened => clipboard = Text(e.text)
  /\ \A e \in execs \cup Range(timers) :
       e.pasted.happened => e.pasted.clip = Text(e.text)

\* the characters the key-code table can produce
TableChars == Range(KEYCODE_MAP)

\* the key code that produces character c, and the key codes that produce string k
CodeOf(c) == CHOOSE code \in DOMAIN KEYCODE_MAP : KEYCODE_MAP[code] = c
CodesOf(k) == [i \in 1..Len(k) |-> CodeOf(k[i])]

\* C33: when the keys handled last with the lock free, with no other key between
\* them and no match on the way, are the characters of a registered shortcut that
\* the key-code table can produce and that is no longer than BUFFER_CAP, the last of
\* them starts the expansion of that shortcut's snippet.
C33_TypedShortcutFires ==
  \A i \in 1..Len(installed) :
    LET k == installed[i].shortcut
    IN (/\ last.op = "key"
        /\ ~last.pre
        /\ k # <<>>
        /\ \A j \in 1..Len(k) : k[j] \in TableChars
        /\ Len(k) <= BUFFER_CAP
        /\ endsWith(typed, CodesOf(k)))
       => /\ last.fired
          /\ matchLog[Len(matchLog)] = installed[i].id

\* the registered shortcuts, other than the empty one, that end the lower-cased buffer
Unfired == {k \in Registered \ {<<>>} : endsWith(toLowerCase(buffer), k)}

\* C34: while the lock is free no registered non-empty shortcut ends the lower-cased
\* buffer.  (In SpecTail every index build installs the same snippets, so the index
\* is the one under which the buffer was typed.)
C34_NoUnfiredShortcut == ~expanding => Unfired = {}

\* a key event has cut the buffer with the lock free and has left a part of the
\* registered shortcut
C34_Witness ==
  /\ last.op = "key"
  /\ last.trunc
  /\ ~expanding
  /\ buffer = XRun(BUFFER_KEEP)
  /\ XRun(BUFFER_CAP) \in Registered

\* C35: incrementUsage for an id of the snippets table raises the usage counter of
\* that row by one, leaves every other row and the contents of that row as they are,
\* and appends one record to the expansion log with the id, the shortcut of the row,
\* the length of its body and the length of its shortcut; for an id that the table
\* does not hold it changes nothing.
C35_IncrementUsage ==
  [][last'.op = "usage" =>
       LET id == last'.id
       IN IF id \in DOMAIN db.snippets
          THEN /\ DOMAIN db'.snippets = DOMAIN db.snippets
               /\ db'.snippets[id].usage_count = db.snippets[id].usage_count + 1
               /\ db'.snippets[id].shortcut = db.snippets[id].shortcut
               /\ db'.snippets[id].body = db.snippets[id].body
               /\ \A j \in DOMAIN db.snippets \ {id} : db'.snippets[j] = db.snippets[j]
               /\ Len(db'.expansion_log) = Len(db.expansion_log) + 1
               /\ SubSeq(db'.expansion_log, 1, Len(db.expansion_log)) = db.expansion_log
               /\ db'.expansion_log[Len(db'.expansion_log)] =
                    [snippet_id |-> id,
                     shortcut |-> db.snippets[id].shortcut,
                     chars_expanded |-> Len(db.snippets[id].body),
                     chars_shortcut |-> Len(db.snippets[id].shortcut)]
          ELSE db' = db]_vars

\* incrementUsage has been called for an id that the table does not hold, after two
\* calls for the snippet with the shortcut D1, whose body is longer than its shortcut
C35_Witness ==
  /\ last.op = "usage"
  /\ last.id \notin DOMAIN db.snippets
  /\ 3 \in DOMAIN db.snippets
  /\ db.snippets[3].usage_count = 2
  /\ Len(db.expansion_log) = 2
  /\ db.expansion_log[2].chars_expanded = 4
  /\ db.expansion_log[2].chars_shortcut = 2

\* C36: every character of the buffer is a value of the key-code table: no upper-case
\* letter, no space, nothing outside the table.
C36_BufferFromTable ==
  /\ \A i \in 1..Len(buffer) : buffer[i] \in TableChars
  /\ \A i \in 1..Len(buffer) : buffer[i] \notin Range(UpperChars) \cup {" "}

\* left shift has been delivered with the lock free behind printable keys, and the
\* buffer holds a letter and a digit
C36_Witness ==
  /\ last.op = "key"
  /\ last.code = 42
  /\ ~last.pre
  /\ buffer = <<"d", "2">>

====
